---- MODULE Spec2Model ----
(***************************************************************************)
(* Model of src/src/fixed.rs: the 32-bit fixed-point type Fixed32, its     *)
(* constructors, its four operators and its Newton-Raphson reciprocal.     *)
(*                                                                         *)
(* Rust's i32 and i64 values are kept at their width.  The model checker's *)
(* own integers are 32 bits wide, so every quantity that can leave the i32 *)
(* range (the 64-bit product, a checked sum, the bounds of an error        *)
(* estimate) is carried as a "wide" integer: a little-endian sequence of   *)
(* NLimbs limbs in base LimbBase, the last limb signed.                    *)
(*                                                                         *)
(* An arithmetic overflow in Rust panics when the build has overflow       *)
(* checks (debug and test profiles) and wraps when it has not (release).   *)
(* The variable overflowChecks is the profile; both are explored.          *)
(***************************************************************************)
EXTENDS Integers, Sequences, FiniteSets, TLC

\* ------------------------------------------------------------ bounds
\* Mantissas of the exhaustive grid are -MaxVal..MaxVal.
MaxVal == 3
\* Exponents of the exhaustive grid are 0..MaxExp.
MaxExp == 3

\* ------------------------------------------------- program constants
\* Width of the mantissa type (value: i32).
I32Bits == 32
\* Width of the widened product (val1: i64).
I64Bits == 64
\* The Newton-Raphson iteration count (for _ in 0..5).
Iterations == 5

\* --------------------------------------------------- wide integers
\* Parameters of the wide-integer representation: bits per limb and limbs.
\* Any LimbBits in 8..14 keeps every limb product inside the checker's
\* integers; NLimbs * LimbBits exceeds the 64 bits of the widest Rust value.
LimbBits == 11
NLimbs == 7
LimbBase == 2^LimbBits

MinI32 == (-2147483647) - 1
MaxI32 == 2147483647

RECURSIVE Carry(_, _, _)
Carry(s, i, c) ==
    IF i = Len(s) THEN <<s[i] + c>>
    ELSE LET t == s[i] + c
         IN  <<t % LimbBase>> \o Carry(s, i + 1, t \div LimbBase)

\* The unique representation with limbs 1..NLimbs-1 in 0..LimbBase-1.
Norm(s) == Carry(s, 1, 0)

ToW(n) == Norm([i \in 1..NLimbs |-> IF i = 1 THEN n ELSE 0])

AddW(u, w) == Norm([i \in 1..NLimbs |-> u[i] + w[i]])
SubW(u, w) == Norm([i \in 1..NLimbs |-> u[i] - w[i]])
ScaleW(w, k) == Norm([i \in 1..NLimbs |-> w[i] * k])
NegW(w) == SubW(ToW(0), w)
IsNegW(w) == w[NLimbs] < 0
LtW(u, w) == IsNegW(SubW(u, w))
LeW(u, w) == ~LtW(w, u)

\* The exact product of two i32 values (what val1 * val2 is in i64: the
\* product of two i32 values never leaves the i64 range).
MulW(x, y) ==
    LET x1 == x % LimbBase
        x2 == (x \div LimbBase) % LimbBase
        x3 == x \div (LimbBase * LimbBase)
        y1 == y % LimbBase
        y2 == (y \div LimbBase) % LimbBase
        y3 == y \div (LimbBase * LimbBase)
        c  == <<x1 * y1,
                x1 * y2 + x2 * y1,
                x1 * y3 + x2 * y2 + x3 * y1,
                x2 * y3 + x3 * y2,
                x3 * y3>>
    IN  Norm([i \in 1..NLimbs |-> IF i <= 5 THEN c[i] ELSE 0])

\* w * 2^s, s >= 0.
RECURSIVE ShlW(_, _)
ShlW(w, s) ==
    IF s >= LimbBits
    THEN ShlW(<<0>> \o SubSeq(w, 1, NLimbs - 2)
                    \o <<w[NLimbs - 1] + w[NLimbs] * LimbBase>>, s - LimbBits)
    ELSE ScaleW(w, 2^s)

\* floor(w / 2^s), s >= 0: the arithmetic (sign-preserving) right shift.
RECURSIVE ShrW(_, _)
ShrW(w, s) ==
    IF s >= LimbBits
    THEN ShrW(Norm(SubSeq(w, 2, NLimbs) \o <<0>>), s - LimbBits)
    ELSE Norm([i \in 1..NLimbs |->
                 IF i = NLimbs THEN w[i] \div 2^s
                 ELSE (w[i] \div 2^s) + (w[i + 1] % 2^s) * 2^(LimbBits - s)])

\* w mod 2^n for 0 <= n <= 31, limb by limb.
RECURSIVE LowBits(_, _, _)
LowBits(w, i, n) ==
    IF n <= 0 THEN 0
    ELSE IF n <= LimbBits THEN w[i] % 2^n
    ELSE w[i] + LimbBase * LowBits(w, i + 1, n - LimbBits)

\* `as i32`: the low 32 bits, read as a signed value.
NarrowI32(w) ==
    LET lo31 == LowBits(w, 1, I32Bits - 1)
        bit31 == ShrW(w, I32Bits - 1)[1] % 2
    IN  IF bit31 = 1 THEN (lo31 - 2^30) - 2^30 ELSE lo31

FitsI32(w) == ToW(NarrowI32(w)) = w

\* ------------------------------------------------- Rust's i32 operators
\* The outcome of one checked i32 operation: a value, or an overflow panic.
I32Ok(v) == [ok |-> TRUE, v |-> v]
I32Overflow == [ok |-> FALSE, v |-> 0]

\* `+` and `-` on i32: the exact result when it fits; otherwise a panic when
\* the build checks overflow, the wrapped result when it does not.
CheckedI32(w, chk) ==
    IF FitsI32(w) THEN I32Ok(NarrowI32(w))
    ELSE IF chk THEN I32Overflow
    ELSE I32Ok(NarrowI32(w))

\* `v << s` on i32: bits shifted out are lost silently in every build; a shift
\* amount outside 0..31 panics under overflow checks and is masked without.
ShlI32(v, s, chk) ==
    IF s \in 0..(I32Bits - 1) THEN I32Ok(NarrowI32(ShlW(ToW(v), s)))
    ELSE IF chk THEN I32Overflow
    ELSE I32Ok(NarrowI32(ShlW(ToW(v), s % I32Bits)))

\* `(1 << i) & v` on i32.  1 << 31 is i32::MIN, so the conjunction with bit 31
\* is i32::MIN or 0, never a positive number.
BitAnd(i, v) ==
    IF i = I32Bits - 1 THEN (IF v < 0 THEN MinI32 ELSE 0)
    ELSE ((v \div 2^i) % 2) * 2^i

\* ------------------------------------------------------------ Fixed32
Fixed32(v, e) == [value |-> v, exp |-> e]

\* What an operation has done so far: whether an `as i32` changed a value,
\* how many 64-bit products and reciprocals were computed, and the shift
\* amounts and initial guesses of the reciprocals.
NoLog == [narrowed |-> FALSE, products |-> 0, recips |-> 0,
          shifts |-> <<>>, guesses |-> <<>>]

Value(v, e, log) == [kind |-> "value", value |-> v, exp |-> e, log |-> log]
Panic(reason, log) == [kind |-> "panic", reason |-> reason, log |-> log]
AsFixed(r) == Fixed32(r.value, r.exp)

\* Fixed32::from on the f32 value f.n / 2^f.k: f * (1 << exp) as f32 is exact
\* (a scaling by a power of two), round() rounds half away from zero, and
\* `as i32` saturates.
From(f, exp, chk) ==
    LET scale == ShlI32(1, exp, chk)
        absn  == IF f.n < 0 THEN -f.n ELSE f.n
        se    == IF exp \in 0..(I32Bits - 1) THEN exp ELSE exp % I32Bits
        mag   == ShrW(AddW(ShlW(ToW(absn), se + 1), ShlW(ToW(1), f.k)), f.k + 1)
        neg   == (f.n < 0) # (scale.v < 0)
        val   == IF neg THEN SubW(ToW(0), mag) ELSE mag
    IN  IF ~scale.ok THEN Panic("overflow", NoLog)
        ELSE IF FitsI32(val) THEN Value(NarrowI32(val), exp, NoLog)
        ELSE Value(IF neg THEN MinI32 ELSE MaxI32, exp, NoLog)

RECURSIVE ScanLeadingOne(_, _)
ScanLeadingOne(v, i) ==
    IF i > 0
    THEN IF BitAnd(i, v) > 0 THEN i ELSE ScanLeadingOne(v, i - 1)
    ELSE 0

GetLeadingOneIndex(self) == ScanLeadingOne(self.value, I32Bits - 1)

\* Mutant: the product is formed in 32 bits, without widening to i64.
MulNarrowProduct(self, other, chk, log) ==
    IF self.exp # other.exp THEN Panic("exp_mismatch", log)
    ELSE LET wide    == ToW(NarrowI32(MulW(self.value, other.value)))
             product == ShrW(wide, self.exp % I64Bits)
         IN  Value(NarrowI32(product), self.exp,
                   [log EXCEPT !.products = @ + 1])

\* Mutant: no check of the exponents.
MulIgnoresExp(self, other, chk, log) ==
    LET product == ShrW(MulW(self.value, other.value), self.exp % I64Bits)
    IN  Value(NarrowI32(product), self.exp,
              [log EXCEPT !.products = @ + 1,
                          !.narrowed = @ \/ ~FitsI32(product)])

\* Mutant: the rescaling rounds toward zero (a division by 2^exp, not a shift).
MulTruncTowardZero(self, other, chk, log) ==
    IF self.exp # other.exp THEN Panic("exp_mismatch", log)
    ELSE LET wide    == MulW(self.value, other.value)
             product == IF IsNegW(wide)
                        THEN NegW(ShrW(NegW(wide), self.exp % I64Bits))
                        ELSE ShrW(wide, self.exp % I64Bits)
         IN  Value(NarrowI32(product), self.exp,
                   [log EXCEPT !.products = @ + 1,
                               !.narrowed = @ \/ ~FitsI32(product)])

Mul(self, other, chk, log) ==
    IF self.exp # other.exp THEN Panic("exp_mismatch", log)
    ELSE LET wide    == MulW(self.value, other.value)
             log1    == [log EXCEPT !.products = @ + 1]
             product == ShrW(wide, self.exp % I64Bits)
         IN  IF self.exp \notin 0..(I64Bits - 1) /\ chk
             THEN Panic("overflow", log1)
             ELSE Value(NarrowI32(product), self.exp,
                        [log1 EXCEPT !.narrowed = @ \/ ~FitsI32(product)])

\* Mutant: the constant 2 is built as 1 << exp, which is 1.
NewtonStepOneMinus(self, result, chk) ==
    LET t1 == Mul(AsFixed(result), self, chk, result.log)
    IN  IF t1.kind = "panic" THEN t1
        ELSE LET two == ShlI32(1, self.exp, chk)
                 t2  == CheckedI32(SubW(ToW(two.v), ToW(t1.value)), chk)
             IN  IF ~two.ok \/ ~t2.ok THEN Panic("overflow", t1.log)
                 ELSE Mul(AsFixed(result), Fixed32(t2.v, self.exp), chk, t1.log)

\* One pass of the loop body: result = result * (2 - result * self).
NewtonStep(self, result, chk) ==
    LET t1 == Mul(AsFixed(result), self, chk, result.log)
    IN  IF t1.kind = "panic" THEN t1
        ELSE LET two == ShlI32(1, self.exp + 1, chk)
                 t2  == CheckedI32(SubW(ToW(two.v), ToW(t1.value)), chk)
             IN  IF ~two.ok \/ ~t2.ok THEN Panic("overflow", t1.log)
                 ELSE Mul(AsFixed(result), Fixed32(t2.v, self.exp), chk, t1.log)

RECURSIVE NewtonRaphson(_, _, _, _)
NewtonRaphson(self, result, n, chk) ==
    IF n = 0 \/ result.kind = "panic" THEN result
    ELSE NewtonRaphson(self, NewtonStep(self, result, chk), n - 1, chk)

\* Mutant: the guess is shifted by exp - leading_one_index, not 2*exp - it.
ReciprocalSingleExp(self, chk, log) ==
    LET leading_one_index == GetLeadingOneIndex(self)
        shift == self.exp - leading_one_index
        guess == ShlI32(1, shift, chk)
        log1  == [log EXCEPT !.recips = @ + 1, !.shifts = Append(@, shift)]
    IN  IF ~guess.ok THEN Panic("overflow", log1)
        ELSE NewtonRaphson(self,
                 Value(guess.v, self.exp,
                       [log1 EXCEPT !.guesses = Append(@, guess.v)]),
                 Iterations, chk)

Reciprocal(self, chk, log) ==
    LET leading_one_index == GetLeadingOneIndex(self)
        shift == self.exp * 2 - leading_one_index
        guess == ShlI32(1, shift, chk)
        log1  == [log EXCEPT !.recips = @ + 1, !.shifts = Append(@, shift)]
    IN  IF ~guess.ok THEN Panic("overflow", log1)
        ELSE NewtonRaphson(self,
                 Value(guess.v, self.exp,
                       [log1 EXCEPT !.guesses = Append(@, guess.v)]),
                 Iterations, chk)

\* Mutant: the third branch keeps self's (smaller) exponent.
AddKeepsSelfExp(self, other, chk, log) ==
    IF self.exp = other.exp
    THEN LET sum == CheckedI32(AddW(ToW(self.value), ToW(other.value)), chk)
         IN  IF sum.ok THEN Value(sum.v, self.exp, log)
             ELSE Panic("overflow", log)
    ELSE IF self.exp > other.exp
    THEN LET shifted == ShlI32(other.value, self.exp - other.exp, chk)
             sum == CheckedI32(AddW(ToW(self.value), ToW(shifted.v)), chk)
         IN  IF shifted.ok /\ sum.ok THEN Value(sum.v, self.exp, log)
             ELSE Panic("overflow", log)
    ELSE LET shifted == ShlI32(self.value, other.exp - self.exp, chk)
             sum == CheckedI32(AddW(ToW(shifted.v), ToW(other.value)), chk)
         IN  IF shifted.ok /\ sum.ok THEN Value(sum.v, self.exp, log)
             ELSE Panic("overflow", log)

Add(self, other, chk, log) ==
    IF self.exp = other.exp
    THEN LET sum == CheckedI32(AddW(ToW(self.value), ToW(other.value)), chk)
         IN  IF sum.ok THEN Value(sum.v, self.exp, log)
             ELSE Panic("overflow", log)
    ELSE IF self.exp > other.exp
    THEN LET shifted == ShlI32(other.value, self.exp - other.exp, chk)
             sum == CheckedI32(AddW(ToW(self.value), ToW(shifted.v)), chk)
         IN  IF shifted.ok /\ sum.ok THEN Value(sum.v, self.exp, log)
             ELSE Panic("overflow", log)
    ELSE LET shifted == ShlI32(self.value, other.exp - self.exp, chk)
             sum == CheckedI32(AddW(ToW(shifted.v), ToW(other.value)), chk)
         IN  IF shifted.ok /\ sum.ok THEN Value(sum.v, other.exp, log)
             ELSE Panic("overflow", log)

Sub(self, other, chk, log) ==
    IF self.exp = other.exp
    THEN LET dif == CheckedI32(SubW(ToW(self.value), ToW(other.value)), chk)
         IN  IF dif.ok THEN Value(dif.v, self.exp, log)
             ELSE Panic("overflow", log)
    ELSE IF self.exp > other.exp
    THEN LET shifted == ShlI32(other.value, self.exp - other.exp, chk)
             dif == CheckedI32(SubW(ToW(self.value), ToW(shifted.v)), chk)
         IN  IF shifted.ok /\ dif.ok THEN Value(dif.v, self.exp, log)
             ELSE Panic("overflow", log)
    ELSE LET shifted == ShlI32(self.value, other.exp - self.exp, chk)
             dif == CheckedI32(SubW(ToW(shifted.v), ToW(other.value)), chk)
         IN  IF shifted.ok /\ dif.ok THEN Value(dif.v, other.exp, log)
             ELSE Panic("overflow", log)

\* Mutant: no check of a zero divisor.
DivNoZeroCheck(self, other, chk, log) ==
    IF self.exp # other.exp THEN Panic("exp_mismatch", log)
    ELSE LET r == Reciprocal(other, chk, log)
         IN  IF r.kind = "panic" THEN r
             ELSE Mul(self, AsFixed(r), chk, r.log)

Div(self, other, chk, log) ==
    IF self.exp # other.exp THEN Panic("exp_mismatch", log)
    ELSE IF other.value = 0 THEN Panic("division_by_zero", log)
    ELSE LET r == Reciprocal(other, chk, log)
         IN  IF r.kind = "panic" THEN r
             ELSE Mul(self, AsFixed(r), chk, r.log)

\* ------------------------------------------------------------ inputs
\* The f32 value n / 2^k nearest to each decimal literal num / den that the
\* tests and main feed to Fixed32::from.
F32_0_22     == [n |-> 7381975,  k |-> 25, num |-> 22,   den |-> 100]
F32_3_15     == [n |-> 6606029,  k |-> 21, num |-> 315,  den |-> 100]
F32_107_4    == [n |-> 14077133, k |-> 17, num |-> 1074, den |-> 10]
F32_0_008375 == [n |-> 2248147,  k |-> 28, num |-> 67,   den |-> 8000]
F32_0_31     == [n |-> 5200937,  k |-> 24, num |-> 31,   den |-> 100]
F32_2_47     == [n |-> 10359931, k |-> 22, num |-> 247,  den |-> 100]
F32_3_19     == [n |-> 6689915,  k |-> 21, num |-> 319,  den |-> 100]
F32_20       == [n |-> 20, k |-> 0, num |-> 20, den |-> 1]
F32_5        == [n |-> 5,  k |-> 0, num |-> 5,  den |-> 1]
F32_6        == [n |-> 6,  k |-> 0, num |-> 6,  den |-> 1]

ReciprocalDivisors == {F32_0_22, F32_3_15, F32_107_4, F32_0_008375}
TestFloats == ReciprocalDivisors \cup {F32_0_31, F32_2_47, F32_3_19, F32_20, F32_5, F32_6}
\* The exponents the tests pass to Fixed32::from.
TestExps == {5, 24}

\* Raw (mantissa, exponent) pairs for Fixed32::new: an exhaustive grid of
\* small values, every positive power of two at every exponent 0..31, and
\* the extremes of i32 at exponents up to 40 (so that exponents can differ by
\* 32 or more, and the i64 shift can exceed 32).
Grid == {Fixed32(v, e) : v \in (-MaxVal)..MaxVal, e \in 0..MaxExp}
Pow2 == {Fixed32(2^k, e) : k \in 0..(I32Bits - 2), e \in 0..(I32Bits - 1)}
Edge == {Fixed32(v, e) : v \in {MinI32, MaxI32, -1, 1, 2^30, -(2^30), 140509},
                         e \in {0, 5, 24, 31, 40}}
OperandPairs == (Grid \X Grid) \cup {<<p, p>> : p \in Pow2} \cup (Edge \X Edge)

\* ------------------------------------------------------ state machine
VARIABLES
    overflowChecks, \* the build: TRUE with overflow checks (debug, test)
    pc,             \* "new", "ready" (operands built), "done"
    a, b,           \* the operands (self, other)
    op,             \* the operation applied
    out             \* its outcome

vars == <<overflowChecks, pc, a, b, op, out>>

Idle == [kind |-> "idle", log |-> NoLog]

Init ==
    /\ overflowChecks \in BOOLEAN
    /\ pc = "new"
    /\ a = Fixed32(0, 0)
    /\ b = Fixed32(0, 0)
    /\ op = "none"
    /\ out = Idle

\* Fixed32::new for both operands.
New ==
    /\ pc = "new"
    /\ \E p \in OperandPairs :
         /\ a' = Fixed32(p[1].value, p[1].exp)
         /\ b' = Fixed32(p[2].value, p[2].exp)
    /\ pc' = "ready"
    /\ UNCHANGED <<overflowChecks, op, out>>

\* Fixed32::from for both operands, at a common exponent.
FromFloat ==
    /\ pc = "new"
    /\ \E f \in TestFloats, g \in TestFloats, e \in TestExps :
         LET x == From(f, e, overflowChecks)
             y == From(g, e, overflowChecks)
         IN  IF x.kind = "value" /\ y.kind = "value"
             THEN /\ a' = AsFixed(x)
                  /\ b' = AsFixed(y)
                  /\ pc' = "ready"
                  /\ UNCHANGED <<op, out>>
             ELSE /\ pc' = "done"
                  /\ op' = "from"
                  /\ out' = IF x.kind = "value" THEN y ELSE x
                  /\ UNCHANGED <<a, b>>
    /\ UNCHANGED overflowChecks

Finish(name, result) ==
    /\ pc = "ready"
    /\ pc' = "done"
    /\ op' = name
    /\ out' = result
    /\ UNCHANGED <<overflowChecks, a, b>>

DoLeadingOne == Finish("get_leading_one_index",
                       [kind |-> "index", index |-> GetLeadingOneIndex(a), log |-> NoLog])
DoReciprocal == Finish("reciprocal", Reciprocal(a, overflowChecks, NoLog))
DoAdd == Finish("add", Add(a, b, overflowChecks, NoLog))
DoSub == Finish("sub", Sub(a, b, overflowChecks, NoLog))
DoMul == Finish("mul", Mul(a, b, overflowChecks, NoLog))
DoDiv == Finish("div", Div(a, b, overflowChecks, NoLog))

Next ==
    \/ New
    \/ FromFloat
    \/ DoLeadingOne
    \/ DoReciprocal
    \/ DoAdd
    \/ DoSub
    \/ DoMul
    \/ DoDiv

Spec == Init /\ [][Next]_vars

\* ------------------------------------------------- claims: shared terms
Ready(name) == pc = "done" /\ op = name
AbsLtW(d, t) == LtW(d, t) /\ LtW(NegW(t), d)

\* |q / 2^e - tn/td| / (tn/td) < 1/10, for tn, td > 0.
RelErrBelowTenth(q, e, tn, td) ==
    LET t == ShlW(ToW(tn), e)
    IN  AbsLtW(ScaleW(SubW(MulW(q, td), t), 10), t)

\* |q / 2^e - tn/td| < 1/10, for td > 0.
AbsErrBelowTenth(q, e, tn, td) ==
    AbsLtW(ScaleW(SubW(MulW(q, td), ShlW(ToW(tn), e)), 10), ShlW(ToW(td), e))

FromTest(f, e) == AsFixed(From(f, e, overflowChecks))

\* C1: reciprocal accuracy.  For each divisor d of {0.22, 3.15, 107.4,
\* 0.008375}, the reciprocal of Fixed32::from(d, 24) is a value at exponent 24
\* whose mantissa r has |r / 2^24 - 1/d| / (1/d) < 0.1.
C1_ReciprocalAccuracy ==
    \A f \in ReciprocalDivisors :
        (Ready("reciprocal") /\ a = FromTest(f, 24))
            => /\ out.kind = "value"
               /\ out.exp = 24
               /\ RelErrBelowTenth(out.value, 24, f.den, f.num)

C1_Witness ==
    /\ Ready("reciprocal")
    /\ overflowChecks
    /\ a = FromTest(F32_0_008375, 24)
    /\ a.value = 140509
    /\ out.kind = "value"
    /\ out.value = 2003252349

\* C2: divide accuracy at exponent 5.  from(20, 5) / from(5, 5) is within 0.1
\* of 4.0 and from(20, 5) / from(6, 5) is within 0.1 of 20/6.
C2_DivAccuracyExp5 ==
    \A g \in {F32_5, F32_6} :
        (Ready("div") /\ a = FromTest(F32_20, 5) /\ b = FromTest(g, 5))
            => /\ out.kind = "value"
               /\ AbsErrBelowTenth(out.value, 5, 20, g.num)

\* C3: divide accuracy at exponent 24.  from(20, 24) / from(0.31, 24) is a
\* value whose mantissa q has |q / 2^24 - 20/0.31| / (20/0.31) < 0.1, and no
\* `as i32` on the way changed a value.
C3_DivAccuracyExp24 ==
    (Ready("div") /\ a = FromTest(F32_20, 24) /\ b = FromTest(F32_0_31, 24))
        => /\ out.kind = "value"
           /\ out.exp = 24
           /\ ~out.log.narrowed
           /\ RelErrBelowTenth(out.value, 24, 20 * F32_0_31.den, F32_0_31.num)

C3_Witness ==
    /\ Ready("div")
    /\ a = Fixed32(20 * 2^24, 24)
    /\ a = FromTest(F32_20, 24)
    /\ b = FromTest(F32_0_31, 24)
    /\ out.kind = "value"
    /\ out.log.products = 11

\* C4: multiply on operands whose exponents differ ends in the fatal fault,
\* produces no Fixed32 value, and has computed no product.
C4_MulMismatchFaults ==
    (Ready("mul") /\ a.exp # b.exp)
        => /\ out.kind = "panic"
           /\ out.reason = "exp_mismatch"
           /\ out.log.products = 0

C4_Witness ==
    /\ Ready("mul")
    /\ a.exp # b.exp
    /\ a.value # 0
    /\ b.value # 0
    /\ out.kind = "panic"

\* C5: divide ends in the fatal fault, without a value and without invoking
\* reciprocal, whenever the divisor's mantissa is zero or the exponents
\* differ; a value comes out only when the exponents match and the divisor's
\* mantissa is not zero.
C5_DivFaults ==
    Ready("div")
        => /\ (b.value = 0 \/ a.exp # b.exp)
                => /\ out.kind = "panic"
                   /\ out.reason \in {"exp_mismatch", "division_by_zero"}
                   /\ out.log.recips = 0
                   /\ out.log.products = 0
           /\ out.kind = "value" => (a.exp = b.exp /\ b.value # 0)

C5_Witness ==
    /\ Ready("div")
    /\ a.exp = b.exp
    /\ a.value # 0
    /\ b.value = 0
    /\ out.kind = "panic"
    /\ out.reason = "division_by_zero"

\* ------------------------------------------------ claims: add and sub
MaxOf(x, y) == IF x > y THEN x ELSE y
\* The operand's mantissa aligned to exponent hi, as an exact integer.
AlignedW(x, hi) == ShlW(ToW(x.value), hi - x.exp)
\* The same after the 32-bit shift, which drops the bits above bit 31.
Aligned32(x, hi) == NarrowI32(AlignedW(x, hi))
Combined32(x, y, hi) ==
    IF op = "add" THEN AddW(ToW(Aligned32(x, hi)), ToW(Aligned32(y, hi)))
    ELSE SubW(ToW(Aligned32(x, hi)), ToW(Aligned32(y, hi)))
CombinedExact(x, y, hi) ==
    IF op = "add" THEN AddW(AlignedW(x, hi), AlignedW(y, hi))
    ELSE SubW(AlignedW(x, hi), AlignedW(y, hi))
AlignmentFits(x, y, hi) ==
    /\ FitsI32(AlignedW(x, hi))
    /\ FitsI32(AlignedW(y, hi))
    /\ FitsI32(CombinedExact(x, y, hi))

\* C6 as stated: for all operands, add and subtract return a value whose
\* exponent is the larger exponent and whose mantissa is the 32-bit sum
\* (difference) of the mantissas after the smaller-exponent one is shifted
\* left by the exponent difference; when the shifted mantissa and the result
\* fit in 32 bits the value is the exact rational sum (difference).
C6_AddSubAsStated ==
    (Ready("add") \/ Ready("sub"))
        => LET hi == MaxOf(a.exp, b.exp)
           IN  /\ out.kind = "value"
               /\ out.exp = hi
               /\ out.value = NarrowI32(Combined32(a, b, hi))
               /\ AlignmentFits(a, b, hi)
                    => ToW(out.value) = CombinedExact(a, b, hi)

\* C6 amended: the same of every add and subtract that returns, for
\* exponents that differ by less than 32; it returns unless the build checks
\* overflow and the 32-bit sum (difference) of the aligned mantissas
\* overflows, in which case it panics.
C6_AddSubAmended ==
    /\ ((Ready("add") \/ Ready("sub")) /\ a.exp - b.exp \notin -31..31
                                       /\ overflowChecks)
        => out.kind = "panic"
    /\ ((Ready("add") \/ Ready("sub")) /\ a.exp - b.exp \in -31..31)
        => LET hi == MaxOf(a.exp, b.exp)
               overflows == ~FitsI32(Combined32(a, b, hi))
           IN  /\ out.kind = "panic" <=> (overflowChecks /\ overflows)
               /\ out.kind = "panic" => out.reason = "overflow"
               /\ out.kind = "value"
                    => /\ out.exp = hi
                       /\ out.value = NarrowI32(Combined32(a, b, hi))
               /\ AlignmentFits(a, b, hi)
                    => /\ out.kind = "value"
                       /\ ToW(out.value) = CombinedExact(a, b, hi)
               /\ (a.value \in -1024..1024 /\ b.value \in -1024..1024 /\ hi <= 8)
                    => /\ out.kind = "value"
                       /\ out.value = IF op = "add"
                            THEN a.value * 2^(hi - a.exp) + b.value * 2^(hi - b.exp)
                            ELSE a.value * 2^(hi - a.exp) - b.value * 2^(hi - b.exp)

C6_Witness ==
    /\ Ready("sub")
    /\ a.exp < b.exp
    /\ a.value = -3
    /\ b.value = 1
    /\ out.kind = "value"
    /\ out.exp = b.exp
    /\ out.value = (-3) * 2^(b.exp - a.exp) - 1

C8_GuessPositive ==
    (Ready("reciprocal") /\ a.value > 0 /\ a.exp >= 0)
        => /\ Len(out.log.shifts) = 1
           /\ out.log.shifts[1] \in 0..30
           /\ Len(out.log.guesses) = 1
           /\ out.log.guesses[1] > 0
           /\ LET gv == MulW(out.log.guesses[1], a.value)
                  target == ShlW(ToW(1), 2 * a.exp)
              IN  /\ LeW(gv, ScaleW(target, 2))
                  /\ LeW(target, ScaleW(gv, 2))

\* Bit i of the two's complement 32-bit pattern of v.
BitSet(v, i) == IF i = I32Bits - 1 THEN v < 0 ELSE (v \div 2^i) % 2 = 1
HighestSetBit(v) ==
    CHOOSE i \in 0..(I32Bits - 1) :
        BitSet(v, i) /\ \A j \in (i + 1)..(I32Bits - 1) : ~BitSet(v, j)

\* C9: for every non-zero mantissa v, positive or negative,
\* get_leading_one_index returns the index of the highest set bit of v.
C9_LeadingOneIsHighestBit ==
    (Ready("get_leading_one_index") /\ a.value # 0)
        => out.index = HighestSetBit(a.value)

\* C10: reciprocal is exact on powers of two.  For exp in 0..29 and k in
\* 0..30 with 0 <= 2*exp - k <= 30, the reciprocal of (2^k, exp) is exactly
\* (2^(2*exp - k), exp), no `as i32` changes a value, the reciprocal of the
\* result is the operand again, and the reciprocal of one (k = exp) is one.
C10_ReciprocalPow2Exact ==
    \A k \in 0..30 :
        (Ready("reciprocal") /\ a.value = 2^k /\ a.exp \in 0..29
                             /\ 2 * a.exp - k \in 0..30)
            => /\ out.kind = "value"
               /\ out.exp = a.exp
               /\ out.value = 2^(2 * a.exp - k)
               /\ ~out.log.narrowed
               /\ out.log.guesses = <<out.value>>
               /\ LET again == NewtonStep(a, Value(out.value, a.exp, NoLog),
                                           overflowChecks)
                  IN  /\ again.kind = "value"
                      /\ again.value = out.value
                      /\ ~again.log.narrowed
               /\ LET back == Reciprocal(AsFixed(out), overflowChecks, NoLog)
                  IN  back.kind = "value" /\ AsFixed(back) = a
               /\ k = a.exp => AsFixed(out) = a

C10_Witness ==
    /\ Ready("reciprocal")
    /\ overflowChecks
    /\ a = Fixed32(2^3, 5)
    /\ out.kind = "value"
    /\ out.value = 2^7

====
